---- MODULE Spec2Model ----
(***************************************************************************)
(* Model of the media-session bridge (MediasoupServer and its signaling    *)
(* handlers).  The registries `producers`, `consumers` and `transports`    *)
(* are the Maps of MediasoupServer; `prod`, `trans` and `cons` hold the    *)
(* state of the SFU engine objects the registries point to.  The engine is *)
(* an external collaborator: it creates an object when the request is      *)
(* issued and hands it to the server when the awaited call resolves.       *)
(*                                                                         *)
(* The signaling handlers are those of setupSocketIO.  transportConnect,   *)
(* consume, consumerResume, getProducers and disconnect are the same in    *)
(* both revisions of mediasoupServer.ts; createWebRtcTransport is taken    *)
(* from the revision in which it is live code.                             *)
(*                                                                         *)
(* What a handler passes to the request's callback is a function of the    *)
(* state the handler finds: the ...Response operators.  A promise rejected *)
(* with nobody catching it ends the process: `uncaught` names the handler, *)
(* and nothing runs afterwards.                                            *)
(***************************************************************************)
EXTENDS Integers, FiniteSets, Sequences, TLC

\* ---------------------------------------------------------------- bounds
MaxSockets == 2
MaxProducers == 2
MaxTransports == 2
MaxConsumers == 2
MaxSessions == 1
\* sockets and viewer transports together
MaxViewerObjects == 3
\* ports of the engine's range (rtcMinPort..rtcMaxPort)
MaxPorts == 2
\* createNewSession calls and terminateSession calls
MaxCalls == 2
MaxTerminations == 2
\* entries of a media section: a=rtpmap, a=rtcp-fb and a=ssrc lines
MaxRtp == 2
MaxFb == 2
MaxSsrcs == 2

Sockets == 1..MaxSockets
ProducerIds == 1..MaxProducers
TransportIds == 1..MaxTransports
ConsumerIds == 1..MaxConsumers

Kinds == {"audio", "video"}

\* mimeType of the codec of a producer of the given kind
MimeOf(kind) == IF kind = "video" THEN "video/VP8" ELSE "audio/opus"

\* the rtpCapabilities a viewer may send: the codecs its device supports
CapSets == {{}, {"video/VP8"}, {"video/VP8", "audio/opus"}}

\* the dtlsParameters a viewer may send with transportConnect
DtlsParams == {"fingerprintA", "fingerprintB"}

VARIABLES
  sockets,      \* socket id -> "none" | "connected" | "disconnected"
  streamReady,  \* sockets that were sent streamReady
  remoteSdp,    \* 0 (null) or the number of the session whose SDP is stored
  sessions,     \* number of vendor sessions requested so far
  sessionId,    \* 0 (null) or the number of the vendor session that is live
  tornDown,     \* the vendor sessions that terminateSession has stopped
  prod,         \* engine producers: id -> [stage, kind, closed, session]
  producers,    \* this.producers (keys)
  emitted,      \* producer ids sent to the connected sockets in a newProducer push
  pushed,       \* socket id -> producer id -> number of newProducer pushes received
  trans,        \* engine transports: id -> [state, owner, dtlsState]
  transports,   \* this.transports (keys)
  cons,         \* engine consumers: id -> [state, producerId, transportId, paused, doom, mime]
  consumers,    \* this.consumers (keys)
  uncaught,     \* handlers whose promise was rejected with nobody catching
  section,      \* the media section of the remote SDP that is being translated
  translated,   \* what its translation gave: [by, result, produced]
  sdpArgs,      \* the arguments of a createSDPForFFmpeg call
  sdpFile,      \* the session descriptor the call returned ("" before the call)
  sdpMedia,     \* kind -> what the remote SDP has for it: "absent" | "empty" | "codecs"
  track,        \* kind -> the receiveTrack call for the vendor's track:
                \*   [pc, producer, steps, port, process, data]
  ffmpegProcesses, \* this.ffmpegProcesses (keys)
  polls,        \* producers whose stats interval is armed
  polledClosed, \* producers whose stats interval fired after they had closed
  worker,       \* the SFU worker process: "running" | "died"
  exitTimer,    \* the timer of the 'died' listener: "unset" | "armed" | "fired"
  exited,       \* process.exit has been called
  avatar,       \* HeyGenAvatar: accessToken, peerConnection, the peer connections,
                \*   the createNewSession calls, what receiveTrack read, terminateSession
  viewer,       \* HeyGenClient: the viewer's page (see the viewer client section)
  recorder      \* usedPorts, the port getAvailablePort returned, and the
                \*   startFFmpegRecording call: its process, promise, timers and log

vars == <<sockets, streamReady, remoteSdp, sessions, sessionId, tornDown, prod,
          producers, emitted, pushed, trans, transports, cons, consumers, uncaught,
          section, translated, sdpArgs, sdpFile, sdpMedia, track, ffmpegProcesses,
          polls, polledClosed, worker, exitTimer, exited, avatar, viewer, recorder>>

\* the state of the server and its engine objects
server == <<sockets, streamReady, remoteSdp, sessions, sessionId, tornDown, prod,
            producers, emitted, pushed, trans, transports, cons, consumers, uncaught>>

\* the state of a translation
translation == <<section, translated>>

\* the state of a session descriptor
descriptor == <<sdpArgs, sdpFile>>

\* the state of the receiveTrack calls and of what they start
pipeline == <<sdpMedia, track, ffmpegProcesses, polls, polledClosed>>

\* the state of the worker and of the process
lifecycle == <<worker, exitTimer, exited>>

\* the state of the units that are modelled on their own
units == <<avatar, viewer, recorder>>

\* the state of the recording egress and of the process
egress == <<descriptor, pipeline, lifecycle, units>>

\* the viewers' side of the server
viewers == <<streamReady, trans, transports, cons, consumers>>

NoProducer == [stage |-> "none", kind |-> "none", closed |-> FALSE, session |-> 0]
NoTransport == [state |-> "none", owner |-> 0, dtlsState |-> "new"]
NoConsumer == [state |-> "none", producerId |-> 0, transportId |-> 0,
               paused |-> TRUE, doom |-> "none", mime |-> "none"]

\* ------------------------------------------------------- media sections
\* a field the SDP does not give (undefined)
Absent == -1

\* all sequences over S of length up to n
SeqsUpTo(S, n) == UNION {[1..k -> S] : k \in 0..n}

PayloadTypes == {96, 111}
CodecNames == {"VP8", "H264", "opus"}

\* rate and encoding of an a=rtpmap line
RtpFormats ==
  {[rate |-> Absent, encoding |-> Absent], [rate |-> 90000, encoding |-> Absent],
   [rate |-> 48000, encoding |-> 2]}

\* mediaSection.rtp[i]
RtpEntries ==
  {[payload |-> pt, codec |-> c, rate |-> f.rate, encoding |-> f.encoding] :
     pt \in PayloadTypes, c \in CodecNames, f \in RtpFormats}

\* mediaSection.rtp: a payload type is listed once
RtpLists ==
  {l \in SeqsUpTo(RtpEntries, MaxRtp) :
     \A i, j \in 1..Len(l) : i # j => l[i].payload # l[j].payload}

\* mediaSection.rtcpFb[i]; a subtype the line does not give is "undefined"
FbEntries ==
  {[payload |-> pt, type |-> "nack", subtype |-> st] :
     pt \in PayloadTypes, st \in {"undefined", "pli"}}

\* mediaSection.ssrcs[i]
SsrcEntries == {[id |-> i] : i \in {0, 1111}}

\* the media sections sdpTransform.parse may give (a list the SDP does not
\* give is the empty one: the code reads both alike)
Sections ==
  [type : Kinds, rtp : RtpLists, rtcpFb : SeqsUpTo(FbEntries, MaxFb),
   ssrcs : SeqsUpTo(SsrcEntries, MaxSsrcs)]

\* the session whose remote SDP the media section was parsed from
SectionSdp == 1

\* what this.remoteSdp may hold when a section is translated: null, the SDP
\* the section is of, or the SDP of another session
StoredSdps == {0, SectionSdp, SectionSdp + 1}

NoSection == [type |-> "video", rtp |-> <<>>, rtcpFb |-> <<>>, ssrcs |-> <<>>]

\* the outcomes of a translation
Translated(codecs, encodings) ==
  [status |-> "ok", error |-> "", codecs |-> codecs, encodings |-> encodings]
Failed(msg) == [status |-> "error", error |-> msg, codecs |-> <<>>, encodings |-> <<>>]
\* the codecs the recorder capability set admits (createFFmpegRtpCapabilities),
\* as the first codec of a recording consumer's rtpParameters
RecorderCodecs ==
  {[mimeType |-> "video/VP8", payloadType |-> 96, clockRate |-> 90000],
   [mimeType |-> "video/VP8", payloadType |-> 101, clockRate |-> 90000],
   [mimeType |-> "video/H264", payloadType |-> 96, clockRate |-> 90000],
   [mimeType |-> "audio/opus", payloadType |-> 111, clockRate |-> 48000]}

\* rtpParameters.encodings of a recording consumer
RecorderEncodings == SeqsUpTo({[ssrc |-> x] : x \in {Absent, 0, 1111}}, 1)

\* the local address and port of the egress transport's tuple
LocalIps == {"127.0.0.1", "10.0.0.5"}
LocalPorts == {10000, 10001}

\* { rtpParameters, localIp, localPort }
SdpArgs ==
  [codec : RecorderCodecs, encodings : RecorderEncodings, localIp : LocalIps,
   localPort : LocalPorts]

NoSdpArgs ==
  [codec |-> [mimeType |-> "video/VP8", payloadType |-> 96, clockRate |-> 90000],
   encodings |-> <<>>, localIp |-> "127.0.0.1", localPort |-> 10000]

\* a receiveTrack call that has not been made
NoTrack ==
  [pc |-> "none", producer |-> 0, steps |-> <<>>, port |-> 0, process |-> "none",
   data |-> "waiting"]

\* no receiveTrack call has been made; the remote SDP will have both sections
InitPipeline ==
  /\ sdpMedia = [k \in Kinds |-> "codecs"]
  /\ track = [k \in Kinds |-> NoTrack]
  /\ ffmpegProcesses = {}
  /\ polls = {}
  /\ polledClosed = {}

\* runMediasoupWorker has created the worker
InitLifecycle ==
  /\ worker = "running"
  /\ exitTimer = "unset"
  /\ exited = FALSE

\* no port has been handed out and startFFmpegRecording has not been called
NoRecorder ==
  [usedPorts |-> {}, port |-> 0, consumer |-> "none", process |-> "none",
   signalled |-> FALSE, input |-> FALSE, hasReceivedData |-> FALSE, close |-> "none",
   settled |-> "pending", noDataTimer |-> "unset", maxTimer |-> "unset", log |-> <<>>]

\* a createNewSession call that has not been made
NoCall == [pc |-> "none", socket |-> 0, steps |-> <<>>]

\* HeyGenAvatar after construction; no call has been made
NoAvatar ==
  [accessToken |-> FALSE, peerConnection |-> 0,
   pcs |-> [n \in 1..MaxCalls |-> "none"], calls |-> [c \in 1..MaxCalls |-> NoCall],
   reads |-> {}, started |-> {}, terminate |-> "idle", stops |-> 0, returned |-> 0]

\* the page before its socket has connected: this.transport = null
NoViewer ==
  [pc |-> "offline", transport |-> FALSE, list |-> {}, seen |-> {},
   requests |-> [p \in ProducerIds |-> 0]]

InitUnits ==
  /\ avatar = NoAvatar
  /\ viewer = NoViewer
  /\ recorder = NoRecorder

NotTranslated ==
  [by |-> "none", produced |-> FALSE,
   result |-> [status |-> "pending", error |-> "", codecs |-> <<>>, encodings |-> <<>>]]

\* the server after construction, with `sdp` as the stored remote SDP
InitServerWith(sdp) ==
  /\ sockets = [s \in Sockets |-> "none"]
  /\ streamReady = {}
  /\ remoteSdp = sdp
  /\ sessions = 0
  /\ sessionId = 0
  /\ tornDown = {}
  /\ prod = [p \in ProducerIds |-> NoProducer]
  /\ producers = {}
  /\ emitted = {}
  /\ pushed = [s \in Sockets |-> [p \in ProducerIds |-> 0]]
  /\ trans = [t \in TransportIds |-> NoTransport]
  /\ transports = {}
  /\ cons = [c \in ConsumerIds |-> NoConsumer]
  /\ consumers = {}
  /\ uncaught = {}

\* private remoteSdp: sdpTransform.SessionDescription | null = null
InitServer == InitServerWith(0)

\* the server after construction; no track has arrived
Init ==
  /\ InitServer
  /\ section = NoSection
  /\ translated = NotTranslated
  /\ sdpArgs = NoSdpArgs
  /\ sdpFile = ""
  /\ InitPipeline
  /\ InitLifecycle
  /\ InitUnits

\* ------------------------------------------------------------ responses
\* callback({ ...descriptor }) / callback({ status: 'success' })
Ack(op, id) == [op |-> op, ok |-> TRUE, error |-> "", id |-> id]

\* callback({ error: (error as Error).message })
Err(op, id, msg) == [op |-> op, ok |-> FALSE, error |-> msg, id |-> id]

\* the event loop takes the next event: the process is alive
Ready == uncaught = {} /\ ~exited

\* ------------------------------------------------------- engine queries
\* the lowest id not yet given out (ids are never reused)
FreeProducer == {p \in ProducerIds : prod[p].stage = "none" /\ \A q \in 1..(p - 1) : prod[q].stage # "none"}
FreeTransport == {t \in TransportIds : trans[t].state = "none" /\ \A u \in 1..(t - 1) : trans[u].state # "none"}
FreeConsumer == {c \in ConsumerIds : cons[c].state = "none" /\ \A d \in 1..(c - 1) : cons[d].state # "none"}
FreeSocket == {s \in Sockets : sockets[s] = "none" /\ \A r \in 1..(s - 1) : sockets[r] # "none"}

\* there is room for one more socket or viewer transport
RoomForViewerObject ==
  Cardinality({s \in Sockets : sockets[s] # "none"})
    + Cardinality({t \in TransportIds : trans[t].state # "none"}) < MaxViewerObjects

\* the producer is known to the router: produce() has resolved and it is open
InRouter(p) == prod[p].stage \in {"tracing", "added"} /\ ~prod[p].closed

\* a router that lets every device consume every producer it knows
CanConsumeAnyCodec(p, caps) == InRouter(p)

\* router.canConsume({ producerId, rtpCapabilities })
CanConsume(p, caps) == InRouter(p) /\ MimeOf(prod[p].kind) \in caps

\* the consumers the server holds an open object of
HandedOver == {c \in ConsumerIds : cons[c].state \in {"open", "doomed", "zombie"}}

\* a consumer that is no more: closed with its producer, or closed with its
\* transport or never handed over
ClosedStates == {"closedByProducer", "closed"}

\* consumer state of the data model: Created(paused), Active, Closed
ConsumerState(c) ==
  IF cons[c].state \in {"none", "inflight"} THEN "None"
  ELSE IF cons[c].state \in ClosedStates THEN "Closed"
  ELSE IF cons[c].paused THEN "Created" ELSE "Active"

\* an engine consumer once closed (of one closed with its producer the
\* producer is remembered)
Closed(c, how) ==
  [NoConsumer EXCEPT !.state = how,
                     !.producerId = IF how = "closedByProducer" THEN cons[c].producerId ELSE 0]

\* ------------------------------------------------- connection lifecycle
\* io.on('connection'): a viewer socket connects
Connection(s) ==
  /\ Ready
  /\ s \in FreeSocket
  /\ RoomForViewerObject
  /\ sockets' = [sockets EXCEPT ![s] = "connected"]
  /\ UNCHANGED <<streamReady, remoteSdp, sessions, sessionId, tornDown, prod, producers, emitted, pushed, trans,
                 transports, cons, consumers, uncaught,
                 translation, egress>>

\* socket.on('disconnect'): the handler only logs.  (What the viewer had
\* received goes with its socket.)
DisconnectCleanup(s) ==
  /\ transports' = transports
  /\ consumers' = consumers
  /\ trans' = trans
  /\ cons' = cons

Disconnect(s) ==
  /\ Ready
  /\ sockets[s] = "connected"
  /\ sockets' = [sockets EXCEPT ![s] = "disconnected"]
  /\ pushed' = [pushed EXCEPT ![s] = [p \in ProducerIds |-> 0]]
  /\ DisconnectCleanup(s)
  /\ UNCHANGED <<streamReady, remoteSdp, sessions, sessionId, tornDown, prod, producers,
                 emitted, uncaught,
                 translation, egress>>

\* socket.on('startStream'): await createNewSession(), then emit streamReady.
\* The handler has no try/catch and createNewSession rethrows what it catches.
StartStreamFailed(s) == uncaught' = uncaught \cup {"startStream"}

StartStream(s) ==
  /\ Ready
  /\ sockets[s] = "connected"
  /\ sessions < MaxSessions
  /\ sessions' = sessions + 1
  /\ \E outcome \in {"ok", "failCreate", "failStart"} :
       /\ remoteSdp' = IF outcome = "failCreate" THEN remoteSdp ELSE sessions + 1
       /\ sessionId' = IF outcome = "failCreate" THEN sessionId ELSE sessions + 1
       /\ IF outcome = "ok"
            THEN /\ streamReady' = streamReady \cup {s}
                 /\ uncaught' = uncaught
            ELSE /\ streamReady' = streamReady
                 /\ StartStreamFailed(s)
  /\ UNCHANGED <<sockets, tornDown, prod, producers, emitted, pushed, trans, transports, cons,
                 consumers,
                 translation, egress>>

\* HeyGenAvatar.terminateSession (the operator's "Stop Connection"): the
\* vendor is asked to stop the session; then sessionId is set to null and the
\* peer connection is closed.  When the request fails the error is logged and
\* nothing is changed.  Nothing here touches the media server.
TerminateSession ==
  /\ Ready
  /\ sessionId # 0
  /\ \E ok \in BOOLEAN :
       IF ok
         THEN /\ sessionId' = 0
              /\ tornDown' = tornDown \cup {sessionId}
         ELSE /\ sessionId' = sessionId
              /\ tornDown' = tornDown
  /\ UNCHANGED <<sockets, streamReady, remoteSdp, sessions, prod, producers, emitted, pushed,
                 trans, transports, cons, consumers, uncaught,
                 translation, egress>>

\* ------------------------------------------------------------ producers
\* ontrack -> receiveTrack -> createProducer up to the point where `await
\* incomingTransport.produce()` has settled (until then no handler can see the
\* producer).  It needs the stored remote SDP and an open peer connection; a
\* session delivers one track of each kind; the producer gets a fresh id.
\* Resolved: the router knows the
\* producer and createProducer goes on to `await producer.enableTraceEvent()`.
\* Rejected: createProducer throws, receiveTrack rethrows, ontrack does not
\* await it.
ReceiveTrack(k) ==
  /\ Ready
  /\ remoteSdp # 0
  /\ sessionId # 0
  /\ Cardinality({q \in ProducerIds : prod[q].kind = k}) < sessions
  /\ \E p \in FreeProducer, ok \in BOOLEAN :
       IF ok
         THEN /\ prod' = [prod EXCEPT ![p] = [stage |-> "tracing", kind |-> k, closed |-> FALSE,
                                              session |-> sessionId]]
              /\ uncaught' = uncaught
         ELSE /\ prod' = [prod EXCEPT ![p] = [stage |-> "failed", kind |-> k, closed |-> FALSE,
                                              session |-> sessionId]]
              /\ uncaught' = uncaught \cup {"receiveTrack"}
  /\ UNCHANGED <<sockets, streamReady, remoteSdp, sessions, sessionId, tornDown, producers, emitted, pushed, trans,
                 transports, cons, consumers,
                 translation, egress>>

\* an emit that reaches the first socket only
PushedToFirstSocket(p) ==
  [s \in Sockets |->
     IF sockets[s] = "connected" /\ s = 1 THEN [pushed[s] EXCEPT ![p] = @ + 1] ELSE pushed[s]]

\* io.emit("newProducer", id): one push to every socket that is connected
PushedAfterEmit(p) ==
  [s \in Sockets |->
     IF sockets[s] = "connected" THEN [pushed[s] EXCEPT ![p] = @ + 1] ELSE pushed[s]]

\* an addProducer that pushes the id and does not store the producer
AddProducerPushOnly(p) ==
  /\ producers' = producers
  /\ emitted' = emitted \cup {p}
  /\ pushed' = PushedAfterEmit(p)

\* addProducer: this.producers.set(id, producer), then io.emit("newProducer", id)
AddProducer(p) ==
  /\ producers' = producers \cup {p}
  /\ emitted' = emitted \cup {p}
  /\ pushed' = PushedAfterEmit(p)

\* enableTraceEvent() resolves: the rest of createProducer runs, ending in addProducer
TraceEnabled(p) ==
  /\ Ready
  /\ prod[p].stage = "tracing"
  /\ prod' = [prod EXCEPT ![p].stage = "added"]
  /\ AddProducer(p)
  /\ UNCHANGED <<sockets, streamReady, remoteSdp, sessions, sessionId, tornDown, trans, transports, cons,
                 consumers, uncaught,
                 translation, egress>>

\* socket.on('getProducers'): the ids of everything in this.producers
GetProducersResult == producers

GetProducers(s) ==
  /\ Ready
  /\ sockets[s] = "connected"
  /\ GetProducersResult \subseteq ProducerIds
  /\ UNCHANGED vars

\* ------------------------------------------------------ consumer events
\* a 'producerclose' handler that leaves the registry as it is
ConsumersKeptAfterProducerClose(C) == consumers

\* consumer.on('producerclose'): this.consumers.delete(consumer.id), for each
\* consumer of the set the event reaches.  consumer.close() follows: the
\* engine has closed the consumer already, so it returns at once.
ConsumersAfterProducerClose(C) == consumers \ C

\* consumer.on('transportclose'): this.consumers.delete(consumer.id)
ConsumersAfterTransportClose(C) == consumers \ C

\* The engine closes producer p.  Every open consumer of p is closed by the
\* engine, which emits 'producerclose' and 'close' on it; a consumer still
\* being created is closed before it is handed over.
ProducerClose(p) ==
  /\ Ready
  /\ InRouter(p)
  /\ LET C == {c \in ConsumerIds : cons[c].state = "open" /\ cons[c].producerId = p}
     IN  /\ prod' = [prod EXCEPT ![p].closed = TRUE]
         /\ cons' = [c \in ConsumerIds |->
                       IF c \in C THEN Closed(c, "closedByProducer")
                       ELSE IF cons[c].state = "inflight" /\ cons[c].producerId = p
                               /\ cons[c].doom = "none"
                         THEN [cons[c] EXCEPT !.doom = "producerclose"]
                       ELSE cons[c]]
         /\ consumers' = ConsumersAfterProducerClose(C)
  /\ UNCHANGED <<sockets, streamReady, remoteSdp, sessions, sessionId, tornDown, producers, emitted, pushed, trans,
                 transports, uncaught,
                 translation, egress>>

\* 'producerclose' reaches a consumer that was handed over after its producer
\* had closed
ConsumerProducerClose(c) ==
  /\ Ready
  /\ cons[c].state = "doomed"
  /\ cons' = [cons EXCEPT ![c] = Closed(c, "closedByProducer")]
  /\ consumers' = ConsumersAfterProducerClose({c})
  /\ UNCHANGED <<sockets, streamReady, remoteSdp, sessions, sessionId, tornDown, prod, producers, emitted, pushed,
                 trans, transports, uncaught,
                 translation, egress>>

\* ----------------------------------------------------------- transports
\* an index that holds the newest transport only
RegisterTransportAlone(t) == transports' = {t}

\* this.transports.set(transport.id, transport)
RegisterTransport(t) == transports' = transports \cup {t}

\* socket.on('createWebRtcTransport'): once `await
\* router.createWebRtcTransport()` has settled (until then no handler can see
\* the transport) the transport is registered under its fresh id and its
\* descriptor passed to the callback, or the error is
CreateWebRtcTransport(s) ==
  /\ Ready
  /\ sockets[s] = "connected"
  /\ RoomForViewerObject
  /\ \E t \in FreeTransport, ok \in BOOLEAN :
       IF ok
         THEN /\ trans' = [trans EXCEPT ![t] = [NoTransport EXCEPT !.state = "open", !.owner = s]]
              /\ RegisterTransport(t)
         ELSE /\ trans' = trans
              /\ transports' = transports
  /\ UNCHANGED <<sockets, streamReady, remoteSdp, sessions, sessionId, tornDown, prod, producers, emitted, pushed,
                 cons, consumers, uncaught,
                 translation, egress>>

\* an engine that accepts connect() on an open transport again and again
ConnectAcceptedAgain(t, d) == trans[t].state = "open"

\* transport.connect({ dtlsParameters }) in the engine: only the first call
\* on an open transport succeeds, whatever the parameters of a later one (the
\* handler keeps none and compares none)
ConnectAccepted(t, d) == trans[t].state = "open" /\ trans[t].dtlsState = "new"

\* what socket.on('transportConnect') passes to its callback
TransportConnectResponse(t, d) ==
  IF t \notin transports THEN Err("transportConnect", t, "Transport not found")
  ELSE IF ConnectAccepted(t, d) THEN Ack("transportConnect", t)
  ELSE Err("transportConnect", t, "engine")

\* the engine transports once the transportConnect handler has run
TransAfterConnect(t, d) ==
  IF TransportConnectResponse(t, d).ok
    THEN [trans EXCEPT ![t].dtlsState = "connected"]
    ELSE trans

\* socket.on('transportConnect')
TransportConnect(s, t, d) ==
  /\ Ready
  /\ sockets[s] = "connected"
  /\ trans' = TransAfterConnect(t, d)
  /\ UNCHANGED <<sockets, streamReady, remoteSdp, sessions, sessionId, tornDown, prod, producers, emitted, pushed,
                 transports, cons, consumers, uncaught,
                 translation, egress>>

\* transport.on('dtlsstatechange') with dtlsState 'closed': transport.close().
\* Its consumers get 'transportclose'; the entry stays in this.transports.
DtlsClosed(t) ==
  /\ Ready
  /\ trans[t].state = "open"
  /\ trans[t].dtlsState = "connected"
  /\ LET C == {c \in ConsumerIds : cons[c].state \in {"open", "doomed"} /\ cons[c].transportId = t}
     IN  /\ trans' = [trans EXCEPT ![t].state = "closed", ![t].dtlsState = "closed"]
         /\ cons' = [c \in ConsumerIds |->
                       IF c \in C THEN Closed(c, "closed")
                       ELSE IF cons[c].state = "inflight" /\ cons[c].transportId = t
                               /\ cons[c].doom = "none"
                         THEN [cons[c] EXCEPT !.doom = "transportclose"]
                       ELSE cons[c]]
         /\ consumers' = ConsumersAfterTransportClose(C)
  /\ UNCHANGED <<sockets, streamReady, remoteSdp, sessions, sessionId, tornDown, prod, producers, emitted, pushed,
                 transports, uncaught,
                 translation, egress>>

\* ------------------------------------------------------------ consumers
\* a consume handler that does not look the transport up
ConsumeErrorNoLookup(t, p, caps) ==
  IF ~CanConsume(p, caps) THEN "Cannot consume"
  ELSE IF trans[t].state # "open" THEN "engine"
  ELSE ""

\* what socket.on('consume') checks before `await transport.consume()`:
\* router.canConsume, then the transports lookup; "" when the call is issued
ConsumeError(t, p, caps) ==
  IF ~CanConsume(p, caps) THEN "Cannot consume"
  ELSE IF t \notin transports THEN "Transport not found"
  ELSE IF trans[t].state # "open" THEN "engine"
  ELSE ""

\* a transport.consume() called without `paused: true`
NewConsumerUnpaused(t, p, caps) ==
  [state |-> "inflight", producerId |-> p, transportId |-> t, paused |-> FALSE,
   doom |-> "none",
   mime |-> IF MimeOf(prod[p].kind) \in caps THEN MimeOf(prod[p].kind) ELSE "none"]

\* transport.consume({ producerId, rtpCapabilities, paused: true }): the
\* consumer takes the producer's codec when the capabilities hold it
NewConsumer(t, p, caps) ==
  [state |-> "inflight", producerId |-> p, transportId |-> t, paused |-> TRUE,
   doom |-> "none",
   mime |-> IF MimeOf(prod[p].kind) \in caps THEN MimeOf(prod[p].kind) ELSE "none"]

\* the engine consumers the consume handler may leave behind at its await:
\* as they were when it answers an error, with one more being created otherwise
ConsAfterConsume(t, p, caps) ==
  IF ConsumeError(t, p, caps) # ""
    THEN {cons}
    ELSE {[cons EXCEPT ![c] = NewConsumer(t, p, caps)] : c \in FreeConsumer}

\* socket.on('consume') up to `await transport.consume()`: an error goes to
\* the callback at once, otherwise the engine starts creating the consumer
Consume(s, t, p, caps) ==
  /\ Ready
  /\ sockets[s] = "connected"
  /\ cons' \in ConsAfterConsume(t, p, caps)
  /\ UNCHANGED <<sockets, streamReady, remoteSdp, sessions, sessionId, tornDown, prod, producers, emitted, pushed,
                 trans, transports, consumers, uncaught,
                 translation, egress>>

\* this.consumers.set(consumer.id, consumer)
RegisterConsumer(c) == consumers' = consumers \cup {c}

\* transport.consume() settles.  The handler registers whatever consumer it
\* is handed, without looking at the producer or the transport again, and
\* passes its descriptor to the callback.  When the producer or the transport
\* closed while the call was in flight the engine either rejects the call
\* (the error goes to the callback) or hands over the consumer it had
\* created: one whose 'producerclose' is still to come ("doomed"), or one of
\* a closed transport, which gets no further event ("zombie").
ConsumeSettled(c) ==
  /\ Ready
  /\ cons[c].state = "inflight"
  /\ \E resolved \in BOOLEAN :
       /\ (cons[c].doom = "none") => resolved
       /\ IF resolved
            THEN /\ cons' = [cons EXCEPT ![c].state =
                               CASE cons[c].doom = "none" -> "open"
                                 [] cons[c].doom = "producerclose" -> "doomed"
                                 [] OTHER -> "zombie"]
                 /\ RegisterConsumer(c)
            ELSE /\ cons' = [cons EXCEPT ![c] = Closed(c, "closed")]
                 /\ consumers' = consumers
  /\ UNCHANGED <<sockets, streamReady, remoteSdp, sessions, sessionId, tornDown, prod, producers, emitted, pushed,
                 trans, transports, uncaught,
                 translation, egress>>

\* consumer.resume() in the engine: succeeds on a live consumer, paused or not
ResumeAccepted(c) == cons[c].state = "open"

\* what socket.on('consumerResume') passes to its callback
ConsumerResumeResponse(c) ==
  IF c \notin consumers THEN Err("consumerResume", c, "Consumer not found")
  ELSE IF ResumeAccepted(c) THEN Ack("consumerResume", c)
  ELSE Err("consumerResume", c, "engine")

\* a resume that flips the paused flag
PausedToggledByResume(c) == ~cons[c].paused

\* the paused flag after a successful consumer.resume()
PausedAfterResume(c) == FALSE

\* the engine consumers once the consumerResume handler has run for c
ConsAfterResume(c) ==
  IF ConsumerResumeResponse(c).ok
    THEN [cons EXCEPT ![c].paused = PausedAfterResume(c)]
    ELSE cons

\* socket.on('consumerResume')
ConsumerResume(s, c) ==
  /\ Ready
  /\ sockets[s] = "connected"
  /\ cons' = ConsAfterResume(c)
  /\ UNCHANGED <<sockets, streamReady, remoteSdp, sessions, sessionId, tornDown, prod, producers, emitted, pushed,
                 trans, transports, consumers, uncaught,
                 translation, egress>>

\* ---------------------------------------------------------- translation
\* the feedback entries of the section, whatever their payload type
RtcpFeedbackAll(sec, codec) ==
  [i \in 1..Len(sec.rtcpFb) |->
     [type |-> sec.rtcpFb[i].type,
      parameter |-> IF sec.rtcpFb[i].subtype = "undefined" THEN "" ELSE sec.rtcpFb[i].subtype]]

\* rtcpFeedback of a codec: mediaSection.rtcpFb filtered by the codec's
\* payload type, each entry mapped to { type, parameter: subtype || '' }
RtcpFeedback(sec, codec) ==
  LET match == SelectSeq(sec.rtcpFb, LAMBDA fb : fb.payload = codec.payload)
  IN  [i \in 1..Len(match) |->
         [type |-> match[i].type,
          parameter |-> IF match[i].subtype = "undefined" THEN "" ELSE match[i].subtype]]

\* the codec pushed for one entry of mediaSection.rtp:
\* clockRate: codec.rate || 0, channels: codec.encoding || 1
Codec(type, sec, codec) ==
  [mimeType |-> type \o "/" \o codec.codec,
   payloadType |-> codec.payload,
   clockRate |-> IF codec.rate \in {Absent, 0} THEN 0 ELSE codec.rate,
   channels |-> IF codec.encoding \in {Absent, 0} THEN 1 ELSE codec.encoding,
   rtcpFeedback |-> RtcpFeedback(sec, codec)]

\* for (const codec of mediaSection.rtp) rtpParameters.codecs.push(...)
Codecs(type, sec) == [i \in 1..Len(sec.rtp) |-> Codec(type, sec, sec.rtp[i])]

\* an encoding list that is empty when the section has no SSRC
EncodingsOnlyWithSsrc(sec) ==
  IF Len(sec.ssrcs) > 0 /\ sec.ssrcs[1].id # 0
    THEN <<[ssrc |-> sec.ssrcs[1].id]>>
    ELSE <<>>

\* rtpParameters.encodings =
\*   [{ ssrc: ssrcs?.[0]?.id ? Number(ssrcs[0].id) : undefined }]
Encodings(sec) ==
  <<[ssrc |-> IF Len(sec.ssrcs) > 0 /\ sec.ssrcs[1].id # 0 THEN sec.ssrcs[1].id ELSE Absent]>>

\* this.remoteSdp?.media.find(m => m === mediaSection)?.type: the type of the
\* section when the stored remote SDP is the one the section is of, and
\* undefined when it is null or another SDP
StoredType(sec, sdp) == IF sdp = SectionSdp THEN sec.type ELSE "undefined"

\* extractRtpParameters: with no rtp entry the guard's `throw new Error(...)`
\* reads mediaSection.rtp[0].codec for its message, which throws a TypeError;
\* the media type of the mimeType is looked up in the stored remote SDP
extractRtpParameters(sec, sdp) ==
  IF Len(sec.rtp) = 0
    THEN Failed("TypeError")
    ELSE Translated(Codecs(StoredType(sec, sdp), sec), Encodings(sec))

\* mimeType.toLowerCase()
ToLowerCase(m) ==
  CASE m = "video/VP8" -> "video/vp8"
    [] m = "audio/VP8" -> "audio/vp8"
    [] m = "video/H264" -> "video/h264"
    [] m = "audio/H264" -> "audio/h264"
    [] OTHER -> m

\* isCodecSupported: some codec of the built list is video/vp8 for a video
\* track, audio/opus for an audio track
isCodecSupported(kind, codecs) ==
  \E i \in 1..Len(codecs) :
    \/ kind = "video" /\ ToLowerCase(codecs[i].mimeType) = "video/vp8"
    \/ kind = "audio" /\ ToLowerCase(codecs[i].mimeType) = "audio/opus"

\* the translation written out in receiveTrack (the revision without
\* extractRtpParameters): the same codecs and encodings, with a guard that
\* throws its own error and the check of the built codec list
ReceiveTrackRtpParameters(sec) ==
  IF Len(sec.rtp) = 0 THEN Failed("No RTP parameters found")
  ELSE IF ~isCodecSupported(sec.type, Codecs(sec.type, sec)) THEN Failed("Unsupported codec")
  ELSE Translated(Codecs(sec.type, sec), Encodings(sec))

\* a track arrives for the section: receiveTrack finds the section in the
\* stored remote SDP and calls
\* createProducer(track, this.extractRtpParameters(mediaSection)); produce()
\* is called when the translation did not throw
TranslateSection ==
  /\ translated.by = "none"
  /\ remoteSdp = SectionSdp
  /\ translated' = [by |-> "extractRtpParameters",
                    result |-> extractRtpParameters(section, remoteSdp),
                    produced |-> extractRtpParameters(section, remoteSdp).status = "ok"]
  /\ UNCHANGED <<section, server, egress>>

\* getRtpParameters(mediaSection): the public entry to extractRtpParameters,
\* for a section the caller holds, whatever remote SDP is stored by then
GetRtpParameters ==
  /\ translated.by = "none"
  /\ translated' = [by |-> "getRtpParameters",
                    result |-> extractRtpParameters(section, remoteSdp),
                    produced |-> FALSE]
  /\ UNCHANGED <<section, server, egress>>

\* a track arrives for the section, in the revision that translates within
\* receiveTrack
TranslateInReceiveTrack ==
  /\ translated.by = "none"
  /\ translated' = [by |-> "receiveTrack",
                    result |-> ReceiveTrackRtpParameters(section),
                    produced |-> ReceiveTrackRtpParameters(section).status = "ok"]
  /\ UNCHANGED <<section, server, egress>>

\* ------------------------------------------------- the track pipeline
\* receiveTrack(track) runs from one await to the next; `pc` names the call
\* it is waiting for, `steps` what it has done so far.
Wait(k, pc, done) ==
  [track EXCEPT ![k].pc = pc, ![k].steps = track[k].steps \o done]

\* receiveTrack throws (its catch logs and rethrows); ontrack calls it
\* without await, inside a try/catch that a rejected promise does not reach
TrackRejected(k, done) ==
  /\ track' = Wait(k, "rejected", done)
  /\ uncaught' = uncaught \cup {"receiveTrack"}

\* a receiveTrack that goes on to produce() whatever the remote SDP has
AfterTranslationAlways(k) == "produce"

\* receiveTrack up to `await incomingTransport.produce()`: the media section
\* of the track's kind is looked up in the stored remote SDP and translated;
\* a missing section and a failed translation throw
AfterTranslation(k) == IF sdpMedia[k] = "codecs" THEN "produce" ELSE "rejected"

\* ontrack: a track of the vendor's session arrives
TrackArrives(k) ==
  /\ Ready
  /\ remoteSdp # 0
  /\ sessionId # 0
  /\ track[k].pc = "none"
  /\ IF AfterTranslation(k) = "produce"
       THEN /\ track' = Wait(k, "produce", <<"translate">>)
            /\ uncaught' = uncaught
       ELSE TrackRejected(k, <<>>)
  /\ UNCHANGED <<sockets, remoteSdp, sessions, sessionId, tornDown, prod, producers, emitted,
                 pushed, viewers, translation, descriptor, lifecycle, units, sdpMedia, ffmpegProcesses, polls,
                 polledClosed>>

\* incomingTransport.produce() settles; createProducer goes on to
\* `await producer.enableTraceEvent()`
ProduceSettled(k) ==
  /\ Ready
  /\ track[k].pc = "produce"
  /\ \E p \in FreeProducer, ok \in BOOLEAN :
       IF ok
         THEN /\ prod' = [prod EXCEPT ![p] = [stage |-> "tracing", kind |-> k, closed |-> FALSE,
                                              session |-> sessionId]]
              /\ track' = [Wait(k, "enableTrace", <<"createProducer">>) EXCEPT ![k].producer = p]
              /\ uncaught' = uncaught
         ELSE /\ prod' = [prod EXCEPT ![p] = [stage |-> "failed", kind |-> k, closed |-> FALSE,
                                              session |-> sessionId]]
              /\ TrackRejected(k, <<>>)
  /\ UNCHANGED <<sockets, remoteSdp, sessions, sessionId, tornDown, producers, emitted,
                 pushed, viewers, translation, descriptor, lifecycle, units, sdpMedia, ffmpegProcesses, polls,
                 polledClosed>>

\* enableTraceEvent() settles: the rest of createProducer runs (the stats
\* interval is set, addProducer stores the producer and emits newProducer),
\* and receiveTrack goes on to `await this.createPlainTransport()`
EnableTraceSettled(k) ==
  /\ Ready
  /\ track[k].pc = "enableTrace"
  /\ \E ok \in BOOLEAN :
       IF ok
         THEN /\ prod' = [prod EXCEPT ![track[k].producer].stage = "added"]
              /\ polls' = polls \cup {track[k].producer}
              /\ AddProducer(track[k].producer)
              /\ track' = Wait(k, "plainTransport", <<"register", "broadcast">>)
              /\ uncaught' = uncaught
         ELSE /\ TrackRejected(k, <<>>)
              /\ UNCHANGED <<prod, polls, producers, emitted, pushed>>
  /\ UNCHANGED <<sockets, remoteSdp, sessions, sessionId, tornDown, viewers, translation,
                 descriptor, lifecycle, units, sdpMedia, ffmpegProcesses, polledClosed>>

\* an awaited call of the recording part settles: on success receiveTrack
\* runs to its next await, on failure it throws
RecordingStep(k, from, to, done) ==
  /\ Ready
  /\ track[k].pc = from
  /\ \E ok \in BOOLEAN :
       IF ok
         THEN /\ track' = Wait(k, to, done)
              /\ uncaught' = uncaught
         ELSE TrackRejected(k, <<>>)
  /\ UNCHANGED <<sockets, remoteSdp, sessions, sessionId, tornDown, prod, producers, emitted,
                 pushed, viewers, translation, descriptor, lifecycle, units, sdpMedia, polls, polledClosed>>

\* the first port of the engine's range
MinPort == 10000

\* the ports the engine gives to transports
Ports == MinPort..(MinPort + MaxPorts - 1)

\* the ports bound by the egress transports the engine holds open: a plain
\* transport keeps its port until it is closed, and nothing closes one
BoundPorts == {track[k].port : k \in Kinds} \ {0}

\* the ports the engine can bind a new transport to
FreePorts == Ports \ BoundPorts

\* createPlainTransport() settles, the engine having bound the transport to
\* a free port of its range; next `await plainTransport.consume()`
PlainTransportSettled(k) ==
  /\ Ready
  /\ track[k].pc = "plainTransport"
  /\ \E ok \in BOOLEAN :
       IF ok /\ FreePorts # {}
         THEN /\ \E port \in FreePorts :
                   track' = [Wait(k, "consume", <<"egressTransport">>) EXCEPT ![k].port = port]
              /\ uncaught' = uncaught
         ELSE TrackRejected(k, <<>>)
  /\ UNCHANGED <<sockets, remoteSdp, sessions, sessionId, tornDown, prod, producers, emitted,
                 pushed, viewers, translation, descriptor, lifecycle, units, sdpMedia, ffmpegProcesses, polls,
                 polledClosed>>

\* plainTransport.consume() settles; the descriptor is built and
\* `await fs.promises.writeFile(sdpPath, sdp)` is next
RecorderConsumeSettled(k) ==
  /\ RecordingStep(k, "consume", "writeFile", <<"recorderConsumer">>)
  /\ UNCHANGED ffmpegProcesses

\* a receiveTrack that connects the egress transport right after spawn()
SpawnedAndConnecting(k) == "connect"

\* after spawn(): `await new Promise(resolve => setTimeout(resolve, 1000))`
Spawned(k) == "warmup"

\* writeFile() settles: ffmpeg is spawned and stored in ffmpegProcesses, and
\* the warm-up timer is set
WriteFileSettled(k) ==
  /\ Ready
  /\ track[k].pc = "writeFile"
  /\ \E ok \in BOOLEAN :
       IF ok
         THEN /\ track' = [Wait(k, Spawned(k), <<"descriptorWritten", "processStarted">>)
                             EXCEPT ![k].process = "running"]
              /\ ffmpegProcesses' = ffmpegProcesses \cup {k}
              /\ uncaught' = uncaught
         ELSE /\ TrackRejected(k, <<>>)
              /\ ffmpegProcesses' = ffmpegProcesses
  /\ UNCHANGED <<sockets, remoteSdp, sessions, sessionId, tornDown, prod, producers, emitted,
                 pushed, viewers, translation, descriptor, lifecycle, units, sdpMedia, polls, polledClosed>>

\* the warm-up timer fires; next `await plainTransport.connect()`
WarmupElapsed(k) ==
  /\ Ready
  /\ track[k].pc = "warmup"
  /\ track' = Wait(k, "connect", <<"warmupElapsed">>)
  /\ UNCHANGED <<server, translation, descriptor, lifecycle, units, sdpMedia, ffmpegProcesses, polls,
                 polledClosed>>

\* spawn() fails: the child emits 'error', for which receiveTrack has set
\* no listener
SpawnError(k) ==
  /\ Ready
  /\ track[k].pc = "warmup"
  /\ track' = Wait(k, "rejected", <<>>)
  /\ uncaught' = uncaught \cup {"ffmpeg"}
  /\ UNCHANGED <<sockets, remoteSdp, sessions, sessionId, tornDown, prod, producers, emitted,
                 pushed, viewers, translation, descriptor, lifecycle, units, sdpMedia, ffmpegProcesses, polls,
                 polledClosed>>

\* plainTransport.connect() settles; next `await consumer.resume()`
EgressConnectSettled(k) ==
  /\ RecordingStep(k, "connect", "resume", <<"transportConnected">>)
  /\ UNCHANGED ffmpegProcesses

\* consumer.resume() settles; receiveTrack returns
RecorderResumeSettled(k) ==
  /\ RecordingStep(k, "resume", "recording", <<"consumerResumed">>)
  /\ UNCHANGED ffmpegProcesses

\* the recorder reports its input on stderr: the 'data' listener logs
FfmpegReportsInput(k) ==
  /\ Ready
  /\ track[k].pc = "recording"
  /\ track[k].process = "running"
  /\ track[k].data = "waiting"
  /\ track' = [track EXCEPT ![k].data = "received"]
  /\ UNCHANGED <<server, translation, descriptor, lifecycle, units, sdpMedia, ffmpegProcesses, polls,
                 polledClosed>>

\* the grace window passes without the recorder having reported any input:
\* receiveTrack has set no timer
GraceWindowElapsed(k) ==
  /\ Ready
  /\ track[k].pc = "recording"
  /\ track[k].process = "running"
  /\ track[k].data = "waiting"
  /\ track' = [track EXCEPT ![k].data = "none"]
  /\ UNCHANGED <<server, translation, descriptor, lifecycle, units, sdpMedia, ffmpegProcesses, polls,
                 polledClosed>>

\* the recorder exits (end of input, error, signal): receiveTrack has set no
\* 'close' listener
FfmpegExits(k) ==
  /\ Ready
  /\ track[k].process = "running"
  /\ track' = [track EXCEPT ![k].process = "exited"]
  /\ UNCHANGED <<server, translation, descriptor, lifecycle, units, sdpMedia, ffmpegProcesses, polls,
                 polledClosed>>

\* the stats interval of createProducer fires: `await producer.getStats()`,
\* in a callback nobody awaits; the engine may reject the request for a
\* producer that has closed
PollProducerStats(p) ==
  /\ Ready
  /\ p \in polls
  /\ polledClosed' = IF prod[p].closed THEN polledClosed \cup {p} ELSE polledClosed
  /\ \E ok \in BOOLEAN :
       /\ ~prod[p].closed => ok
       /\ uncaught' = IF ok THEN uncaught ELSE uncaught \cup {"getStats"}
  /\ UNCHANGED <<sockets, remoteSdp, sessions, sessionId, tornDown, prod, producers, emitted,
                 pushed, viewers, translation, descriptor, lifecycle, units, sdpMedia, track, ffmpegProcesses,
                 polls>>

\* ------------------------------------------------------------- the worker
\* a 'died' listener that logs and sets no timer
DiedListenerLogsOnly == exitTimer' = exitTimer

\* worker.on("died"): setTimeout(() => process.exit(1), 2000)
DiedListener == exitTimer' = "armed"

\* the SFU worker process dies; the engine emits 'died'
WorkerDied ==
  /\ Ready
  /\ worker = "running"
  /\ worker' = "died"
  /\ DiedListener
  /\ UNCHANGED <<server, translation, descriptor, pipeline, units, exited>>

\* the timer of the 'died' listener fires: process.exit(1)
ExitTimerFires ==
  /\ Ready
  /\ exitTimer = "armed"
  /\ exitTimer' = "fired"
  /\ exited' = TRUE
  /\ UNCHANGED <<server, translation, descriptor, pipeline, units, worker>>

\* ---------------------------------------------------- session descriptor
\* mimeType.split('/')[0]
MediaTypeOf(mime) ==
  CASE mime = "video/VP8" -> "video"
    [] mime = "video/H264" -> "video"
    [] mime = "audio/opus" -> "audio"

\* mimeType.split('/')[1]
CodecNameOf(mime) ==
  CASE mime = "video/VP8" -> "VP8"
    [] mime = "video/H264" -> "H264"
    [] mime = "audio/opus" -> "opus"

\* encoding?.ssrc is truthy: there is a first encoding and its ssrc is
\* neither undefined nor 0
HasSsrc(encodings) ==
  Len(encodings) > 0 /\ encodings[1].ssrc # Absent /\ encodings[1].ssrc # 0

\* the array `sdp` of createSDPForFFmpeg, the a=ssrc line pushed
SdpLines(args) ==
  <<"v=0",
    "o=- 0 0 IN IP4 127.0.0.1",
    "s=FFmpeg",
    "c=IN IP4 " \o args.localIp,
    "t=0 0",
    "m=" \o MediaTypeOf(args.codec.mimeType) \o " " \o ToString(args.localPort)
      \o " RTP/AVP " \o ToString(args.codec.payloadType),
    "a=recvonly",
    "a=rtpmap:" \o ToString(args.codec.payloadType) \o " "
      \o CodecNameOf(args.codec.mimeType) \o "/" \o ToString(args.codec.clockRate)>>
  \o (IF HasSsrc(args.encodings)
        THEN <<"a=ssrc:" \o ToString(args.encodings[1].ssrc) \o " cname:ffmpeg">>
        ELSE <<>>)

\* lines.join(sep)
RECURSIVE Join(_, _)
Join(lines, sep) ==
  IF Len(lines) = 0 THEN ""
  ELSE IF Len(lines) = 1 THEN lines[1]
  ELSE lines[1] \o sep \o Join(Tail(lines), sep)

\* a descriptor that is the joined lines and nothing more
createSDPJoinedOnly(args) == Join(SdpLines(args), "\n")

\* createSDPForFFmpeg: return sdp.join('\n') + '\n'
createSDPForFFmpeg(args) == Join(SdpLines(args), "\n") \o "\n"

\* a call of createSDPForFFmpeg for the consumer of a recording job
CreateSDPForFFmpeg ==
  /\ sdpFile = ""
  /\ sdpFile' = createSDPForFFmpeg(sdpArgs)
  /\ UNCHANGED <<sdpArgs, server, translation, pipeline, lifecycle, units>>

\* -------------------------------------------------------- specification
Next ==
  \/ \E s \in Sockets : Connection(s)
  \/ \E s \in Sockets : Disconnect(s)
  \/ \E s \in Sockets : StartStream(s)
  \/ TerminateSession
  \/ \E k \in Kinds : ReceiveTrack(k)
  \/ \E p \in ProducerIds : TraceEnabled(p)
  \/ \E p \in ProducerIds : ProducerClose(p)
  \/ \E s \in Sockets : GetProducers(s)
  \/ \E s \in Sockets : CreateWebRtcTransport(s)
  \/ \E s \in Sockets, t \in TransportIds, d \in DtlsParams : TransportConnect(s, t, d)
  \/ \E t \in TransportIds : DtlsClosed(t)
  \/ \E s \in Sockets, t \in TransportIds, p \in ProducerIds, caps \in CapSets :
       Consume(s, t, p, caps)
  \/ \E c \in ConsumerIds : ConsumeSettled(c)
  \/ \E c \in ConsumerIds : ConsumerProducerClose(c)
  \/ \E s \in Sockets, c \in ConsumerIds : ConsumerResume(s, c)

Spec == Init /\ [][Next]_vars

\* the translation of a media section, for every section within the bounds
InitRtp ==
  /\ InitServerWith(SectionSdp)
  /\ section \in Sections
  /\ translated = NotTranslated
  /\ sdpArgs = NoSdpArgs
  /\ sdpFile = ""
  /\ InitPipeline
  /\ InitLifecycle
  /\ InitUnits

NextRtp ==
  \/ TranslateSection
  \/ TranslateInReceiveTrack

SpecRtp == InitRtp /\ [][NextRtp]_vars

\* the translation of a section through getRtpParameters, for every section
\* within the bounds and every stored remote SDP
InitGetRtp ==
  /\ \E sdp \in StoredSdps : InitServerWith(sdp)
  /\ section \in Sections
  /\ translated = NotTranslated
  /\ sdpArgs = NoSdpArgs
  /\ sdpFile = ""
  /\ InitPipeline
  /\ InitLifecycle
  /\ InitUnits

NextGetRtp == GetRtpParameters

SpecGetRtp == InitGetRtp /\ [][NextGetRtp]_vars

\* the session descriptor of every recording consumer within the bounds
InitSdp ==
  /\ InitServer
  /\ section = NoSection
  /\ translated = NotTranslated
  /\ sdpArgs \in SdpArgs
  /\ sdpFile = ""
  /\ InitPipeline
  /\ InitLifecycle
  /\ InitUnits

NextSdp == CreateSDPForFFmpeg

SpecSdp == InitSdp /\ [][NextSdp]_vars

\* the vendor's tracks from their arrival to the recording, for every remote
\* SDP: each kind has a section with codecs, a section without, or none
InitTrack ==
  /\ InitServer
  /\ section = NoSection
  /\ translated = NotTranslated
  /\ sdpArgs = NoSdpArgs
  /\ sdpFile = ""
  /\ sdpMedia \in [Kinds -> {"absent", "empty", "codecs"}]
  /\ track = [k \in Kinds |-> NoTrack]
  /\ ffmpegProcesses = {}
  /\ polls = {}
  /\ polledClosed = {}
  /\ InitLifecycle
  /\ InitUnits

NextTrack ==
  \/ \E s \in Sockets : Connection(s)
  \/ \E s \in Sockets : Disconnect(s)
  \/ \E s \in Sockets : StartStream(s)
  \/ \E p \in ProducerIds : ProducerClose(p)
  \/ \E k \in Kinds : TrackArrives(k)
  \/ \E k \in Kinds : ProduceSettled(k)
  \/ \E k \in Kinds : EnableTraceSettled(k)
  \/ \E k \in Kinds : PlainTransportSettled(k)
  \/ \E k \in Kinds : RecorderConsumeSettled(k)
  \/ \E k \in Kinds : WriteFileSettled(k)
  \/ \E k \in Kinds : WarmupElapsed(k)
  \/ \E k \in Kinds : SpawnError(k)
  \/ \E k \in Kinds : EgressConnectSettled(k)
  \/ \E k \in Kinds : RecorderResumeSettled(k)
  \/ \E k \in Kinds : FfmpegReportsInput(k)
  \/ \E k \in Kinds : GraceWindowElapsed(k)
  \/ \E k \in Kinds : FfmpegExits(k)
  \/ \E p \in ProducerIds : PollProducerStats(p)

SpecTrack == InitTrack /\ [][NextTrack]_vars

\* the server with viewers, sessions and tracks, and a worker that may die; a
\* timer that is set fires
NextWorker ==
  \/ \E s \in Sockets : Connection(s)
  \/ \E s \in Sockets : Disconnect(s)
  \/ \E s \in Sockets : StartStream(s)
  \/ TerminateSession
  \/ \E k \in Kinds : ReceiveTrack(k)
  \/ \E p \in ProducerIds : TraceEnabled(p)
  \/ \E s \in Sockets : GetProducers(s)
  \/ WorkerDied
  \/ ExitTimerFires

SpecWorker == Init /\ [][NextWorker]_vars /\ WF_vars(ExitTimerFires)

\* ------------------------------------------- recorder ports and recording
\* what the recorder unit leaves alone
notRecorder == <<server, translation, descriptor, lifecycle, sdpMedia, track, polls, polledClosed,
                 avatar, viewer>>

\* let port = 10000; while (this.usedPorts.has(port)) port++
LowestUnused(used) ==
  CHOOSE p \in MinPort..(MinPort + Cardinality(used)) :
    p \notin used /\ \A q \in MinPort..(p - 1) : q \in used

\* getAvailablePort: the lowest port from 10000 on that is not in usedPorts
\* is added to usedPorts and returned
GetAvailablePort ==
  /\ Ready
  /\ Cardinality(recorder.usedPorts) <= MaxPorts
  /\ recorder' = [recorder EXCEPT !.port = LowestUnused(recorder.usedPorts),
                                  !.usedPorts = @ \cup {LowestUnused(recorder.usedPorts)}]
  /\ UNCHANGED <<notRecorder, ffmpegProcesses>>

\* the first resolve() or reject() settles the promise; later ones do nothing
Settle(outcome) == IF recorder.settled = "pending" THEN outcome ELSE recorder.settled

\* process.kill('SIGTERM') reaches a process that has not exited
Kill == recorder.signalled \/ recorder.process = "running"

\* startFFmpegRecording up to the return of the promise: ffmpeg is spawned
\* and stored under the consumer's id, and the two timers are set
StartFFmpegRecording(k) ==
  /\ Ready
  /\ recorder.process = "none"
  /\ recorder' = [recorder EXCEPT !.consumer = k, !.process = "running",
                                  !.noDataTimer = "armed", !.maxTimer = "armed"]
  /\ ffmpegProcesses' = ffmpegProcesses \cup {k}
  /\ UNCHANGED notRecorder

\* ffmpeg.stderr.on('data'): a chunk that holds 'Error' is logged as an
\* error; any other chunk that holds 'Input #0' sets hasReceivedData
StderrData(hasError, hasInput) ==
  /\ Ready
  /\ recorder.process = "running"
  /\ ~recorder.signalled
  /\ hasError \/ hasInput
  /\ recorder' = [recorder EXCEPT !.input = @ \/ hasInput,
                                  !.hasReceivedData = @ \/ (hasInput /\ ~hasError)]
  /\ UNCHANGED <<notRecorder, ffmpegProcesses>>

\* ffmpeg.on('error'): the process could not be spawned; reject(error)
FfmpegError ==
  /\ Ready
  /\ recorder.process = "running"
  /\ ~recorder.input /\ ~recorder.signalled
  /\ recorder' = [recorder EXCEPT !.process = "failed",
                                  !.settled = Settle("rejected"),
                                  !.log = Append(@, "spawnError")]
  /\ UNCHANGED <<notRecorder, ffmpegProcesses>>

\* the exit codes of the process: 255 after SIGTERM, 0 at the end of the
\* recording ('-t 15': later than the 5000 ms of the no-data timer), anything
\* else on an error of its own
ExitCodes ==
  IF recorder.process = "failed" THEN {1}
  ELSE IF recorder.signalled THEN {255}
  ELSE IF recorder.input /\ recorder.noDataTimer = "fired" THEN {0, 1} ELSE {1}

\* ffmpeg.on('close') up to `await fs.promises.stat(outputPath)`: the entry
\* is deleted from ffmpegProcesses
FfmpegClose(code) ==
  /\ Ready
  /\ recorder.process \in {"running", "failed"}
  /\ code \in ExitCodes
  /\ recorder' = [recorder EXCEPT !.process = "exited", !.signalled = FALSE,
                                  !.close = IF code \in {0, 255} THEN "statOk" ELSE "statBad"]
  /\ ffmpegProcesses' = ffmpegProcesses \ {recorder.consumer}
  /\ UNCHANGED notRecorder

\* the rest of the 'close' listener: an empty output file rejects; a stat
\* that fails is logged only; then exit code 0 or 255 resolves and any
\* other code rejects
StatSettled(file) ==
  /\ Ready
  /\ recorder.close \in {"statOk", "statBad"}
  /\ recorder' =
       IF file = "empty"
         THEN [recorder EXCEPT !.close = "done", !.settled = Settle("rejected"),
                               !.log = Append(@, "emptyFile")]
       ELSE IF recorder.close = "statOk"
         THEN [recorder EXCEPT !.close = "done", !.settled = Settle("resolved"),
                               !.log = Append(@, "completed")]
         ELSE [recorder EXCEPT !.close = "done", !.settled = Settle("rejected"),
                               !.log = Append(@, "exitCode")]
  /\ UNCHANGED <<notRecorder, ffmpegProcesses>>

\* the timer set for 5000 ms: if (!hasReceivedData) { log the error;
\* ffmpeg.kill('SIGTERM'); reject(new Error('No data received')) }
NoDataTimer ==
  IF ~recorder.hasReceivedData
    THEN [recorder EXCEPT !.noDataTimer = "fired", !.signalled = Kill,
                          !.settled = Settle("rejected"), !.log = Append(@, "noData")]
    ELSE [recorder EXCEPT !.noDataTimer = "fired"]

NoDataTimerFires ==
  /\ Ready
  /\ recorder.noDataTimer = "armed"
  /\ recorder' = NoDataTimer
  /\ UNCHANGED <<notRecorder, ffmpegProcesses>>

\* the timer set for (RECORDING_DURATION + 1) * 1000 ms: the process that
\* is still in ffmpegProcesses under the consumer's id is sent SIGTERM
MaxDurationTimerFires ==
  /\ Ready
  /\ recorder.maxTimer = "armed"
  /\ recorder.noDataTimer = "fired"
  /\ recorder' = [recorder EXCEPT !.maxTimer = "fired",
                                  !.signalled = IF recorder.consumer \in ffmpegProcesses
                                                  THEN Kill ELSE @]
  /\ UNCHANGED <<notRecorder, ffmpegProcesses>>

\* shutdown -> cleanupFFmpegProcesses: every process of ffmpegProcesses is
\* sent SIGTERM, then ffmpegProcesses and usedPorts are cleared
CleanupFFmpegProcesses ==
  /\ Ready
  /\ recorder' = [recorder EXCEPT !.signalled = IF recorder.consumer \in ffmpegProcesses
                                                  THEN Kill ELSE @,
                                  !.usedPorts = {}]
  /\ ffmpegProcesses' = {}
  /\ UNCHANGED notRecorder

\* the port allocator and one startFFmpegRecording call, with the events of
\* its process and its timers, and a shutdown at any time
NextRecorder ==
  \/ GetAvailablePort
  \/ \E k \in Kinds : StartFFmpegRecording(k)
  \/ \E hasError, hasInput \in BOOLEAN : StderrData(hasError, hasInput)
  \/ FfmpegError
  \/ \E code \in {0, 1, 255} : FfmpegClose(code)
  \/ \E file \in {"present", "empty", "missing"} : StatSettled(file)
  \/ NoDataTimerFires
  \/ MaxDurationTimerFires
  \/ CleanupFFmpegProcesses

SpecRecorder == Init /\ [][NextRecorder]_vars

\* ------------------------------------------------------ vendor sessions
\* createNewSession and terminateSession step by step: a call waits at each
\* `await`, and another call, a track or a terminateSession may run then.
CallIds == 1..MaxCalls
SessionIds == 1..MaxCalls

\* what the session unit leaves alone
notAvatar == <<prod, producers, emitted, pushed, trans, transports, cons, consumers,
               translation, descriptor, pipeline, lifecycle, recorder>>

\* the first call that has not been made
FreeCall == {c \in CallIds : avatar.calls[c].pc = "none"
                              /\ \A d \in 1..(c - 1) : avatar.calls[d].pc # "none"}

\* the call goes on to wait at `to`, the step `done` having succeeded
CallWaits(c, to, done) ==
  [avatar EXCEPT !.calls[c].pc = to, !.calls[c].steps = Append(@, done)]

\* the step throws: createNewSession logs and rethrows, and the startStream
\* handler has no try/catch
CallFailed(c, av) ==
  /\ avatar' = [av EXCEPT !.calls[c].pc = "failed"]
  /\ uncaught' = uncaught \cup {"startStream"}

\* socket.on('startStream') up to the first await of createNewSession:
\* generateAccessToken when there is no access token, else streaming.new
StartStreamReceived(s) ==
  /\ Ready
  /\ sockets[s] = "connected"
  /\ \E c \in FreeCall :
       avatar' = [avatar EXCEPT !.calls[c] =
                    [pc |-> IF avatar.accessToken THEN "create" ELSE "token",
                     socket |-> s, steps |-> <<>>]]
  /\ UNCHANGED <<sockets, streamReady, remoteSdp, sessions, sessionId, tornDown, uncaught,
                 notAvatar, viewer>>

\* generateAccessToken settles
TokenSettled(c) ==
  /\ Ready
  /\ avatar.calls[c].pc = "token"
  /\ \E ok \in BOOLEAN :
       IF ok
         THEN /\ avatar' = [CallWaits(c, "create", "token") EXCEPT !.accessToken = TRUE]
              /\ uncaught' = uncaught
         ELSE CallFailed(c, avatar)
  /\ UNCHANGED <<sockets, streamReady, remoteSdp, sessions, sessionId, tornDown,
                 notAvatar, viewer>>

\* a setupPeerConnection that does not store the SDP
SetRemoteSdpSkipped(n) == remoteSdp

\* this.mediasoupServer.setRemoteSdp(sdp), with the SDP of session n
SetRemoteSdp(n) == n

\* streaming.new settles.  On success sessionId is set and
\* setupPeerConnection runs up to `await setRemoteDescription`: the offer is
\* stored with setRemoteSdp, a new peer connection replaces this.peerConnection
\* (the one before is left open), its handlers are set and the offer is
\* applied, from when on the session's tracks may arrive.  A response
\* without ICE servers throws after sessionId has been set.
SessionCreated(c) ==
  /\ Ready
  /\ avatar.calls[c].pc = "create"
  /\ \E outcome \in {"ok", "failCreate", "failIce"} :
       /\ sessions' = IF outcome = "failCreate" THEN sessions ELSE sessions + 1
       /\ sessionId' = IF outcome = "failCreate" THEN sessionId ELSE sessions + 1
       /\ remoteSdp' = IF outcome = "ok" THEN SetRemoteSdp(sessions + 1) ELSE remoteSdp
       /\ IF outcome = "ok"
            THEN /\ avatar' = [CallWaits(c, "remoteDescription", "create")
                                 EXCEPT !.peerConnection = sessions + 1,
                                        !.pcs[sessions + 1] = "offered"]
                 /\ uncaught' = uncaught
            ELSE CallFailed(c, avatar)
  /\ UNCHANGED <<sockets, streamReady, tornDown, notAvatar, viewer>>

\* an awaited call on this.peerConnection settles (setRemoteDescription,
\* createAnswer, setLocalDescription); it throws when terminateSession has
\* set this.peerConnection to null meanwhile
NegotiationStep(c, from, to) ==
  /\ Ready
  /\ avatar.calls[c].pc = from
  /\ \E ok \in BOOLEAN :
       IF ok /\ (from = "remoteDescription" \/ avatar.peerConnection # 0)
         THEN /\ avatar' = CallWaits(c, to, from)
              /\ uncaught' = uncaught
         ELSE CallFailed(c, avatar)
  /\ UNCHANGED <<sockets, streamReady, remoteSdp, sessions, sessionId, tornDown,
                 notAvatar, viewer>>

RemoteDescriptionSettled(c) == NegotiationStep(c, "remoteDescription", "answer")
AnswerSettled(c) == NegotiationStep(c, "answer", "localDescription")
LocalDescriptionSettled(c) == NegotiationStep(c, "localDescription", "start")

\* a handler that emits streamReady whether createNewSession returned or threw
EmitStreamReadyAlways(c, ok) == streamReady \cup {avatar.calls[c].socket}

\* await this.heyGenAvatar.createNewSession(); socket.emit('streamReady'):
\* the sockets that have been sent streamReady once the call has ended
EmitStreamReady(c, ok) ==
  IF ok THEN streamReady \cup {avatar.calls[c].socket} ELSE streamReady

\* streaming.start (with this.sessionId) settles.  On success
\* createNewSession returns and the handler emits streamReady.
StartSettled(c) ==
  /\ Ready
  /\ avatar.calls[c].pc = "start"
  /\ \E ok \in BOOLEAN :
       /\ streamReady' = EmitStreamReady(c, ok /\ sessionId # 0)
       /\ IF ok /\ sessionId # 0
            THEN /\ avatar' = [CallWaits(c, "done", "start") EXCEPT !.started = @ \cup {sessionId}]
                 /\ uncaught' = uncaught
            ELSE CallFailed(c, avatar)
  /\ UNCHANGED <<sockets, remoteSdp, sessions, sessionId, tornDown, notAvatar, viewer>>

\* ontrack of the peer connection of session n: receiveTrack is called with
\* the track and reads this.remoteSdp; it throws when there is none, and
\* ontrack does not await it
TrackDelivered(n, k) ==
  /\ Ready
  /\ avatar.pcs[n] = "offered"
  /\ \A r \in avatar.reads : ~(r.session = n /\ r.kind = k)
  /\ avatar' = [avatar EXCEPT !.reads = @ \cup {[session |-> n, kind |-> k, sdp |-> remoteSdp]}]
  /\ uncaught' = IF remoteSdp = 0 THEN uncaught \cup {"receiveTrack"} ELSE uncaught
  /\ UNCHANGED <<sockets, streamReady, remoteSdp, sessions, sessionId, tornDown,
                 notAvatar, viewer>>

\* if (this.peerConnection) { this.peerConnection.close(); this.peerConnection = null }
PeerClosed(av) ==
  IF av.peerConnection = 0 THEN av
  ELSE [av EXCEPT !.pcs[av.peerConnection] = "closed", !.peerConnection = 0]

\* terminateSession up to `await axios.post(streaming.stop)`; without a
\* session id no request is sent and the peer connection is closed at once
TerminateRequested ==
  /\ Ready
  /\ avatar.terminate = "idle"
  /\ avatar.returned < MaxTerminations
  /\ avatar' = IF sessionId # 0
                 THEN [avatar EXCEPT !.terminate = "stopping", !.stops = @ + 1]
                 ELSE [PeerClosed(avatar) EXCEPT !.returned = @ + 1]
  /\ UNCHANGED <<sockets, streamReady, remoteSdp, sessions, sessionId, tornDown, uncaught,
                 notAvatar, viewer>>

\* this.sessionId once the stop request has settled
SessionIdAfterStop(ok) == IF ok THEN 0 ELSE sessionId

\* the avatar once the stop request has settled: on success the peer
\* connection is closed and cleared; a failure is caught and logged
AvatarAfterStop(ok) ==
  [(IF ok THEN PeerClosed(avatar) ELSE avatar)
     EXCEPT !.terminate = "idle", !.returned = @ + 1]

\* the stop request settles and terminateSession returns
StopSettled ==
  /\ Ready
  /\ avatar.terminate = "stopping"
  /\ \E ok \in BOOLEAN :
       /\ sessionId' = SessionIdAfterStop(ok)
       /\ avatar' = AvatarAfterStop(ok)
       /\ tornDown' = IF ok /\ sessionId # 0 THEN tornDown \cup {sessionId} ELSE tornDown
  /\ UNCHANGED <<sockets, streamReady, remoteSdp, sessions, uncaught, notAvatar, viewer>>

\* viewers, their startStream requests step by step, the tracks of the
\* sessions and the operator's terminateSession
NextAvatar ==
  \/ \E s \in Sockets : Connection(s)
  \/ \E s \in Sockets : StartStreamReceived(s)
  \/ \E c \in CallIds : TokenSettled(c)
  \/ \E c \in CallIds : SessionCreated(c)
  \/ \E c \in CallIds : RemoteDescriptionSettled(c)
  \/ \E c \in CallIds : AnswerSettled(c)
  \/ \E c \in CallIds : LocalDescriptionSettled(c)
  \/ \E c \in CallIds : StartSettled(c)
  \/ \E n \in SessionIds, k \in Kinds : TrackDelivered(n, k)
  \/ TerminateRequested
  \/ StopSettled

SpecAvatar == Init /\ [][NextAvatar]_vars

\* --------------------------------------------------------- viewer client
\* One page of the web client (HeygenClient) on socket 1, from its 'connect'
\* event on, with the server's answers to its requests and the newProducer
\* pushes it receives.
ViewerSocket == 1

\* what the viewer's page and the answers to it leave alone
notViewer == <<streamReady, remoteSdp, sessions, sessionId, tornDown, prod, producers,
               emitted, pushed, trans, transports, cons, consumers, uncaught,
               translation, descriptor, pipeline, lifecycle, avatar, recorder>>

\* io.on('connection') and the page's socket.on('connect'): loadDevice emits
\* getRouterRtpCapabilities
ViewerConnected ==
  /\ Ready
  /\ sockets[ViewerSocket] = "none"
  /\ sockets' = [sockets EXCEPT ![ViewerSocket] = "connected"]
  /\ viewer' = [viewer EXCEPT !.pc = "capabilities"]
  /\ UNCHANGED notViewer

\* the page's next await has settled
ViewerStep(from, to) ==
  /\ Ready
  /\ viewer.pc = from
  /\ viewer' = [viewer EXCEPT !.pc = to]
  /\ UNCHANGED <<sockets, notViewer>>

\* socket.on('getRouterRtpCapabilities') answers; the page calls device.load
CapabilitiesAnswered == ViewerStep("capabilities", "load")

\* device.load settles: loadDevice goes on to createConsumerTransport, which
\* emits createWebRtcTransport; an error is caught and logged
DeviceLoaded == \E ok \in BOOLEAN : ViewerStep("load", IF ok THEN "transport" ELSE "ended")

\* the answer to createWebRtcTransport arrives.  With the transport's
\* description the page creates its receive transport and emits getProducers;
\* with an error it logs and returns.
TransportAnswered ==
  /\ Ready
  /\ viewer.pc = "transport"
  /\ \E ok \in BOOLEAN :
       viewer' = IF ok THEN [viewer EXCEPT !.pc = "producers", !.transport = TRUE]
                       ELSE [viewer EXCEPT !.pc = "ended"]
  /\ UNCHANGED <<sockets, notViewer>>

\* socket.on('getProducers') answers with the ids in this.producers; the
\* page starts its loop over them
ProducersAnswered ==
  /\ Ready
  /\ viewer.pc = "producers"
  /\ viewer' = [viewer EXCEPT !.pc = "loop", !.list = producers]
  /\ UNCHANGED <<sockets, notViewer>>

\* consumeStream(producerId): without a transport it logs and returns; with
\* one it emits a consume request for the producer
ConsumeStream(v, p) ==
  IF v.transport THEN [v EXCEPT !.requests[p] = @ + 1] ELSE v

\* for (const producerId of producerIds) await this.consumeStream(producerId)
LoopConsumes ==
  /\ Ready
  /\ viewer.pc = "loop"
  /\ IF viewer.list = {}
       THEN viewer' = [viewer EXCEPT !.pc = "ended"]
       ELSE LET p == CHOOSE q \in viewer.list : \A r \in viewer.list : q <= r
            IN viewer' = [ConsumeStream(viewer, p) EXCEPT !.list = @ \ {p}]
  /\ UNCHANGED <<sockets, notViewer>>

\* socket.on('newProducer'): the push for p reaches the page
NewProducerReceived(p) ==
  /\ Ready
  /\ pushed[ViewerSocket][p] > 0
  /\ p \notin viewer.seen
  /\ viewer' = [ConsumeStream(viewer, p) EXCEPT !.seen = @ \cup {p}]
  /\ UNCHANGED <<sockets, notViewer>>

\* the handlers of the page and the answers to its requests
ViewerNext ==
  \/ CapabilitiesAnswered
  \/ DeviceLoaded
  \/ TransportAnswered
  \/ ProducersAnswered
  \/ LoopConsumes
  \/ \E p \in ProducerIds : NewProducerReceived(p)

\* the page, and on the server a session, its tracks and their producers
NextViewer ==
  \/ ViewerConnected
  \/ ViewerNext
  \/ \E s \in Sockets : StartStream(s)
  \/ \E k \in Kinds : ReceiveTrack(k)
  \/ \E p \in ProducerIds : TraceEnabled(p)

\* every answer arrives and every handler of the page runs
SpecViewer ==
  /\ Init
  /\ [][NextViewer]_vars
  /\ WF_vars(CapabilitiesAnswered) /\ WF_vars(DeviceLoaded) /\ WF_vars(TransportAnswered)
  /\ WF_vars(ProducersAnswered) /\ WF_vars(LoopConsumes)
  /\ \A p \in ProducerIds : WF_vars(NewProducerReceived(p))

\* --------------------------------------------------------------- claims
\* the rest of the state, which a consumerResume leaves alone
others == <<sockets, streamReady, remoteSdp, sessions, sessionId, tornDown, prod, producers, emitted, pushed,
            trans, transports, consumers, uncaught, translation, egress>>

\* C1: closing a producer that has N consumers in the registry closes exactly
\* N consumers with a 'producerclose', leaves no consumer in the registry
\* that references the producer, and a later consumerResume on one of them is
\* answered "Consumer not found".
C1_ProducerCloseEmptiesRegistry ==
  [][\A p \in ProducerIds :
       (~prod[p].closed /\ prod'[p].closed) =>
         LET N == {c \in consumers : cons[c].producerId = p}
         IN  /\ Cardinality({c \in ConsumerIds : /\ cons[c].state # "closedByProducer"
                                                  /\ cons'[c].state = "closedByProducer"})
                  = Cardinality(N)
             /\ \A c \in consumers' : cons'[c].producerId # p
             /\ \A c \in N : c \notin consumers']_vars

\* C2: a consumer handed over by a successful consume is paused, and a
\* consumer becomes Active only in a step that is a consumerResume accepted
\* for its own id: it was Created and registered, only its paused flag
\* changes, and nothing else does.
C2_ActiveOnlyByOwnResume ==
  [][\A c \in ConsumerIds :
       /\ (cons[c].state = "inflight" /\ cons'[c].state \in {"open", "doomed", "zombie"})
            => ConsumerState(c)' = "Created"
       /\ (ConsumerState(c) # "Active" /\ ConsumerState(c)' = "Active")
            => /\ ConsumerState(c) = "Created"
               /\ ConsumerResumeResponse(c).ok
               /\ cons' = [cons EXCEPT ![c].paused = FALSE]
               /\ UNCHANGED others]_vars

C2_Witness ==
  \E c, d \in consumers :
    /\ c # d
    /\ ConsumerState(c) = "Active"
    /\ ConsumerState(d) = "Created"
    /\ trans[cons[d].transportId].dtlsState = "connected"
    /\ cons[d].producerId \in emitted

\* C3: every producer whose id was pushed in a newProducer is in the list
\* getProducers returns, in every reachable state.
C3_PushedIsListed == \A p \in emitted : p \in GetProducersResult

C3_Witness ==
  /\ \E p \in emitted : prod[p].closed
  /\ \E s \in Sockets : sockets[s] = "connected"

C5_NoTransportOfDisconnected ==
  \A t \in transports : sockets[trans[t].owner] # "disconnected"

\* C6: no error raised while a startStream is handled escapes uncaught.
C6_StartStreamErrorCaught == "startStream" \notin uncaught

\* C7: a consumerResume for a consumer that is Active already (created,
\* then resumed) is answered with success and changes nothing: the consumer
\* remains Active.
C7_SecondResumeIsNoOp ==
  \A c \in ConsumerIds :
    ConsumerState(c) = "Active" =>
      /\ c \in consumers
      /\ ConsumerResumeResponse(c) = Ack("consumerResume", c)
      /\ ConsAfterResume(c) = cons

C7_Witness ==
  \E c \in consumers : ConsumerState(c) = "Active" /\ ~prod[cons[c].producerId].closed

\* the consumers that were handed over for a producer that has closed since
OfClosedProducer ==
  {c \in ConsumerIds : /\ cons[c].state \in {"open", "doomed", "zombie", "closedByProducer"}
                       /\ prod[cons[c].producerId].closed}

\* C8 as stated: consumerResume on a consumer whose producer has since closed
\* is answered ProducerNotFoundError.
C8_ResumeAnswersProducerNotFound ==
  \A c \in OfClosedProducer : ConsumerResumeResponse(c).error = "ProducerNotFoundError"

\* C8 amended: consumerResume on a consumer whose producer has since closed
\* never succeeds; once 'producerclose' has reached the consumer the answer
\* is "Consumer not found".
C8_ResumeAnswersConsumerNotFound ==
  \A c \in OfClosedProducer :
    /\ ~ConsumerResumeResponse(c).ok
    /\ cons[c].state = "closedByProducer"
         => ConsumerResumeResponse(c) = Err("consumerResume", c, "Consumer not found")

C8_Witness ==
  /\ \E c \in OfClosedProducer : cons[c].state = "closedByProducer" /\ c \notin consumers
  /\ \E s \in Sockets : sockets[s] = "connected"

\* C9: a consume whose producer closed while the consumer was being created
\* never registers a consumer.
C9_InFlightConsumeCancelled ==
  \A c \in ConsumerIds : cons[c].doom = "producerclose" => c \notin consumers

\* C10 as stated: no consumer is handed over on a transport that has not
\* completed transportConnect.
C10_ConsumeOnlyOnConnected ==
  \A c \in HandedOver : trans[cons[c].transportId].dtlsState # "new"

\* C10 amended: a consume is accepted only for a transport of the index, a
\* producer the router knows and capabilities that hold the producer's codec;
\* the transport need not be connected.
C10_ConsumeOnlyWhenConsumable ==
  \A c \in ConsumerIds :
    cons[c].state \in {"inflight", "open", "doomed", "zombie"} =>
      /\ cons[c].transportId \in transports
      /\ prod[cons[c].producerId].stage \in {"tracing", "added"}
      /\ cons[c].mime = MimeOf(prod[cons[c].producerId].kind)

C10_Witness ==
  \E c \in consumers :
    /\ cons[c].state = "open"
    /\ trans[cons[c].transportId].dtlsState = "new"
    /\ cons[c].mime = "audio/opus"

\* C11 as stated: a transportConnect or consume that names a transport id
\* absent from the index is answered "Transport not found".
C11_AbsentTransportAnswersNotFound ==
  \A t \in TransportIds \ transports :
    (\E s \in Sockets : sockets[s] = "connected") =>
    /\ \A d \in DtlsParams :
         TransportConnectResponse(t, d) = Err("transportConnect", t, "Transport not found")
    /\ \A p \in ProducerIds, caps \in CapSets :
         ConsumeError(t, p, caps) = "Transport not found"

\* C11 amended: a transportConnect that names a transport id absent from the
\* index is answered "Transport not found"; a consume that names one is
\* answered "Transport not found" when the router can consume the producer
\* with the capabilities sent and "Cannot consume" otherwise.  Neither
\* changes an engine transport or starts a consumer.
C11_AbsentTransportIsRefused ==
  \A t \in TransportIds \ transports :
    /\ \A d \in DtlsParams :
         /\ TransportConnectResponse(t, d) = Err("transportConnect", t, "Transport not found")
         /\ TransAfterConnect(t, d) = trans
    /\ \A p \in ProducerIds, caps \in CapSets :
         /\ ConsumeError(t, p, caps) =
              IF CanConsume(p, caps) THEN "Transport not found" ELSE "Cannot consume"
         /\ ConsAfterConsume(t, p, caps) = {cons}

C11_Witness ==
  /\ \E t \in TransportIds \ transports, p \in ProducerIds : InRouter(p)
  /\ \E s \in Sockets : sockets[s] = "connected"
  /\ FreeConsumer # {}

C14_ListedProducersAreActive ==
  \A p \in GetProducersResult : ~prod[p].closed /\ prod[p].session \notin tornDown

\* C15: every producer created for a track of a vendor session that
\* terminateSession has torn down is closed.
C15_TornDownSessionProducersClosed ==
  \A p \in ProducerIds :
    (prod[p].stage \in {"tracing", "added"} /\ prod[p].session \in tornDown)
      => prod[p].closed

\* C16: in the step in which newProducer(p) is emitted, every socket that is
\* connected receives the push for p once and no other socket receives it;
\* no socket ever holds the push of a producer twice.
C16_PushReachesEveryConnectedViewerOnce ==
  [][/\ \A p \in ProducerIds :
          (p \notin emitted /\ p \in emitted') =>
             \A s \in Sockets :
               pushed'[s][p] = IF sockets[s] = "connected" THEN 1 ELSE 0
     /\ \A s \in Sockets, p \in ProducerIds : pushed'[s][p] <= 1]_vars

C16_Witness ==
  \E p, q \in emitted :
    /\ pushed[1][p] = 1 /\ pushed[2][p] = 1
    /\ pushed[1][q] = 1 /\ pushed[2][q] = 0 /\ sockets[2] = "connected"

\* the codecs of a section that the allowlist admits for its kind
OnAllowlist(sec) ==
  {i \in 1..Len(sec.rtp) :
     \/ sec.type = "video" /\ sec.rtp[i].codec = "VP8"
     \/ sec.type = "audio" /\ sec.rtp[i].codec = "opus"}

\* C17: the translation of a media section with an empty RTP payload list
\* fails with the no-codecs error and hands nothing to produce().
C17_EmptyPayloadListFailsWithNoCodecs ==
  (translated.by # "none" /\ Len(section.rtp) = 0) =>
    /\ translated.result.status = "error"
    /\ translated.result.error = "No RTP parameters found"
    /\ ~translated.produced

\* C18: the translation of a media section whose codecs are all outside the
\* allowlist fails with the unsupported-codec error.
C18_CodecOutsideAllowlistFailsUnsupported ==
  (translated.by # "none" /\ Len(section.rtp) > 0 /\ OnAllowlist(section) = {}) =>
    /\ translated.result.status = "error"
    /\ translated.result.error = "Unsupported codec"

\* C19 as stated: the encoding list of a translated section is the singleton
\* of the first SSRC when the section has one, and empty otherwise.
C19_EncodingsEmptyWithoutSsrc ==
  translated.result.status = "ok" =>
    /\ (Len(section.ssrcs) > 0 /\ section.ssrcs[1].id # 0) =>
         translated.result.encodings = <<[ssrc |-> section.ssrcs[1].id]>>
    /\ Len(section.ssrcs) = 0 => translated.result.encodings = <<>>

\* C19: the encoding list of a translated section always has exactly one
\* entry; its ssrc is the id of the first SSRC attribute when the section has
\* one (and the id is not 0), and is undefined otherwise.
C19_EncodingsIsSingleton ==
  translated.result.status = "ok" =>
    /\ Len(translated.result.encodings) = 1
    /\ (Len(section.ssrcs) > 0 /\ section.ssrcs[1].id # 0) =>
         translated.result.encodings[1].ssrc = section.ssrcs[1].id
    /\ (Len(section.ssrcs) = 0 \/ section.ssrcs[1].id = 0) =>
         translated.result.encodings[1].ssrc = Absent

C19_Witness ==
  /\ translated.result.status = "ok"
  /\ Len(section.ssrcs) = 0
  /\ translated.result.encodings = <<[ssrc |-> Absent]>>

\* C20: a translated section has one codec per RTP entry, in the entries'
\* order, with mimeType kind/codec name, the entry's payload type, clockRate 0
\* when the entry has no rate, channels 1 when it has no encoding, and as
\* rtcpFeedback the section's feedback entries of that payload type, in
\* order, reduced to type and parameter.
C20_CodecPerRtpEntry ==
  translated.result.status = "ok" =>
    /\ Len(translated.result.codecs) = Len(section.rtp)
    /\ \A i \in 1..Len(section.rtp) :
         LET e == section.rtp[i]
             c == translated.result.codecs[i]
             idx == {j \in 1..Len(section.rtcpFb) : section.rtcpFb[j].payload = e.payload}
         IN  /\ c.mimeType = section.type \o "/" \o e.codec
             /\ c.payloadType = e.payload
             /\ c.clockRate = (IF e.rate = Absent THEN 0 ELSE e.rate)
             /\ c.channels = (IF e.encoding = Absent THEN 1 ELSE e.encoding)
             /\ Len(c.rtcpFeedback) = Cardinality(idx)
             /\ \A j \in idx :
                  LET f == c.rtcpFeedback[Cardinality({k \in idx : k <= j})]
                  IN  /\ f.type = section.rtcpFb[j].type
                      /\ f.parameter = (IF section.rtcpFb[j].subtype = "undefined"
                                          THEN "" ELSE section.rtcpFb[j].subtype)

C20_Witness ==
  /\ translated.result.status = "ok"
  /\ Len(section.rtp) = 2
  /\ section.rtp[1].codec = "VP8" /\ section.rtp[1].rate = 90000
  /\ section.rtp[2].rate = Absent
  /\ Len(section.rtcpFb) = 2
  /\ section.rtcpFb[1].payload = section.rtp[2].payload
  /\ section.rtcpFb[2].payload = section.rtp[1].payload
  /\ section.rtcpFb[2].subtype = "undefined"
  /\ Len(translated.result.codecs[1].rtcpFeedback) = 1

\* C21: the translation of a media section gives the same RTP parameters
\* whichever remote SDP the server has stored when it is made.
C21_TranslationIgnoresStoredSdp ==
  translated.by = "getRtpParameters" =>
    \A sdp \in StoredSdps : translated.result = extractRtpParameters(section, sdp)

\* the session descriptor lines the claim lists, for the arguments of the
\* call: the a=ssrc line is there when the first encoding carries an SSRC
C29_Lines ==
  <<"v=0",
    "o=- 0 0 IN IP4 127.0.0.1",
    "s=FFmpeg",
    "c=IN IP4 " \o sdpArgs.localIp,
    "t=0 0",
    "m=" \o MediaTypeOf(sdpArgs.codec.mimeType) \o " " \o ToString(sdpArgs.localPort)
      \o " RTP/AVP " \o ToString(sdpArgs.codec.payloadType),
    "a=recvonly",
    "a=rtpmap:" \o ToString(sdpArgs.codec.payloadType) \o " "
      \o CodecNameOf(sdpArgs.codec.mimeType) \o "/" \o ToString(sdpArgs.codec.clockRate)>>

C29_SsrcLine == "a=ssrc:" \o ToString(sdpArgs.encodings[1].ssrc) \o " cname:ffmpeg"

\* C29 as stated: the session descriptor is the listed lines joined by
\* newlines, followed by the a=ssrc line if and only if the first encoding
\* carries an SSRC.
C29_DescriptorIsJoinedLines ==
  sdpFile # "" =>
    sdpFile = IF Len(sdpArgs.encodings) > 0 /\ sdpArgs.encodings[1].ssrc # Absent
                THEN Join(C29_Lines \o <<C29_SsrcLine>>, "\n")
                ELSE Join(C29_Lines, "\n")

\* C29: the session descriptor is the listed lines in the listed order, each
\* one ended by a newline (the last one too), with the a=ssrc line after
\* them if and only if the first encoding carries an SSRC other than 0.
C29_DescriptorIsTerminatedLines ==
  sdpFile # "" =>
    LET Body ==
          C29_Lines[1] \o "\n" \o C29_Lines[2] \o "\n" \o C29_Lines[3] \o "\n"
            \o C29_Lines[4] \o "\n" \o C29_Lines[5] \o "\n" \o C29_Lines[6] \o "\n"
            \o C29_Lines[7] \o "\n" \o C29_Lines[8] \o "\n"
    IN  sdpFile = IF /\ Len(sdpArgs.encodings) > 0
                     /\ sdpArgs.encodings[1].ssrc \notin {Absent, 0}
                    THEN Body \o C29_SsrcLine \o "\n"
                    ELSE Body

C29_Witness ==
  /\ sdpFile # ""
  /\ Len(sdpArgs.encodings) > 0
  /\ sdpArgs.encodings[1].ssrc = 1111
  /\ sdpArgs.codec.mimeType = "audio/opus"

\* the place of a step in what a receiveTrack call has done (0: not done)
Pos(steps, x) ==
  IF \E i \in 1..Len(steps) : steps[i] = x
    THEN CHOOSE i \in 1..Len(steps) : steps[i] = x /\ \A j \in 1..(i - 1) : steps[j] # x
    ELSE 0

\* the steps of a recording job, in the order of the claim
RecordingOrder ==
  <<"descriptorWritten", "processStarted", "warmupElapsed", "transportConnected",
    "consumerResumed">>

\* C24: in the recording job of a track each of the steps descriptor written,
\* process started, warm-up elapsed, egress transport connected, consumer
\* resumed is done only after the one before it; the process is in
\* ffmpegProcesses by the time the transport is connected.
C24_RecordingStepsInOrder ==
  \A k \in Kinds :
    /\ \A i \in 2..Len(RecordingOrder) :
         Pos(track[k].steps, RecordingOrder[i]) # 0 =>
           /\ Pos(track[k].steps, RecordingOrder[i - 1]) # 0
           /\ Pos(track[k].steps, RecordingOrder[i - 1]) < Pos(track[k].steps, RecordingOrder[i])
    /\ Pos(track[k].steps, "transportConnected") # 0 => k \in ffmpegProcesses
    /\ track[k].pc \in {"resume", "recording"} => Pos(track[k].steps, "transportConnected") # 0

C24_Witness ==
  \E k \in Kinds :
    /\ track[k].pc = "recording"
    /\ Pos(track[k].steps, "consumerResumed") = Len(track[k].steps)

\* C26: when the recording part of a track's receiveTrack call fails, the
\* server goes on serving: the process is alive and the track's producer is
\* registered and open.
C26_RecordingFailureIsContained ==
  \A k \in Kinds :
    (track[k].pc = "rejected" /\ Pos(track[k].steps, "register") # 0) =>
      /\ Ready
      /\ track[k].producer \in producers
      /\ ~prod[track[k].producer].closed

\* C27: the stats interval of a producer that has closed is no longer armed
\* and has not fired since the producer closed.
C27_NoPollOfClosedProducer ==
  \A p \in ProducerIds : prod[p].closed => p \notin polls /\ p \notin polledClosed

\* the first steps of a receiveTrack call, in the order of the claim
ProducerOrder == <<"translate", "createProducer", "register", "broadcast">>

\* C30: a receiveTrack call translates, creates the producer, registers it
\* and broadcasts newProducer in this order; a call that has not come to
\* register (no media section of the kind, failed translation, failed
\* creation) leaves no producer of its track registered and no newProducer
\* pushed for it.
C30_TrackStepsInOrder ==
  \A k \in Kinds :
    /\ \A i \in 1..Len(ProducerOrder) :
         i <= Len(track[k].steps) => track[k].steps[i] = ProducerOrder[i]
    /\ Pos(track[k].steps, "register") = 0 =>
         \A p \in ProducerIds :
           prod[p].kind = k =>
             p \notin producers /\ p \notin emitted /\ \A s \in Sockets : pushed[s][p] = 0
    /\ Pos(track[k].steps, "register") # 0 =>
         /\ track[k].producer \in producers \cap emitted
         /\ prod[track[k].producer].stage = "added"
    /\ sdpMedia[k] # "codecs" => \A p \in ProducerIds : prod[p].kind # k

C30_Witness ==
  \E k, j \in Kinds :
    /\ Pos(track[k].steps, "broadcast") = 4
    /\ \E s \in Sockets : pushed[s][track[k].producer] = 1
    /\ sdpMedia[j] = "absent"
    /\ track[j].pc = "rejected"

\* the recording job of a track has ended: its recorder has exited
JobEnded(k) == track[k].process = "exited"

\* C22: the recording jobs of the tracks hold pairwise distinct ports, and
\* once every job that was started has ended all the ports of the range are
\* free again.
C22_PortsFreeAfterAllJobs ==
  /\ \A k, j \in Kinds :
       (k # j /\ track[k].port # 0 /\ track[j].port # 0) => track[k].port # track[j].port
  /\ (Ready /\ (\E k \in Kinds : JobEnded(k))
        /\ \A k \in Kinds : track[k].pc = "none" \/ JobEnded(k)) =>
       Cardinality(FreePorts) = MaxPorts

\* C23: the port of a recording job that has ended has been released.
C23_PortReleasedWhenJobEnds ==
  \A k \in Kinds : (Ready /\ JobEnded(k)) => track[k].port \in FreePorts

\* C25: a recording job that has seen no data within the grace window has
\* been cancelled: its recorder is killed, its entry is gone from
\* ffmpegProcesses and its port is free.
C25_NoDataJobIsCancelled ==
  \A k \in Kinds :
    (Ready /\ track[k].data = "none") =>
      /\ track[k].process # "running"
      /\ k \notin ffmpegProcesses
      /\ track[k].port \in FreePorts

\* the process is gone: it has exited, or an error nobody caught ended it
ProcessGone == exited \/ uncaught # {}

\* C28: once the worker has died the process is eventually gone.
C28_WorkerDeathEndsProcess == (worker = "died") ~> ProcessGone

C28_Witness == worker = "died" /\ exitTimer = "fired" /\ exited

\* C31: the port getAvailablePort returns lies in the configured range.
C31_PortWithinRange == recorder.port # 0 => recorder.port \in Ports

\* C32: every track was translated against the remote SDP of the session
\* it arrived on.
C32_TrackReadsOwnSdp == \A r \in avatar.reads : r.sdp = r.session

\* the steps of a createNewSession call that has returned
StepsOfDone ==
  {<<"token", "create", "remoteDescription", "answer", "localDescription", "start">>,
   <<"create", "remoteDescription", "answer", "localDescription", "start">>}

\* C35: a viewer has been sent streamReady only for a startStream of its own
\* whose createNewSession has returned, every step of it having succeeded
\* (a token exists, the session was created, the offer applied and answered,
\* a start request accepted); a startStream of which a step failed has sent
\* none.
C35_StreamReadyOnlyAfterStarted ==
  /\ streamReady = {avatar.calls[c].socket : c \in {d \in CallIds : avatar.calls[d].pc = "done"}}
  /\ \A c \in CallIds :
       avatar.calls[c].pc = "done" =>
         /\ avatar.calls[c].steps \in StepsOfDone
         /\ avatar.accessToken
         /\ avatar.started # {}

C35_Witness ==
  \E c, d \in CallIds :
    /\ avatar.calls[c].pc = "done"
    /\ avatar.calls[d].pc = "failed"
    /\ avatar.calls[c].socket # avatar.calls[d].socket
    /\ streamReady = {avatar.calls[c].socket}

\* C36: when terminateSession returns the session id is cleared and the peer
\* connection is closed and cleared, whether the stop request succeeded or
\* failed.
C36_TerminateClearsSession ==
  avatar.terminate = "stopping" =>
    \A ok \in BOOLEAN :
      /\ SessionIdAfterStop(ok) = 0
      /\ AvatarAfterStop(ok).peerConnection = 0

\* C33: the page sends at most one consume request for a producer.
C33_OneConsumePerProducer == \A p \in ProducerIds : viewer.requests[p] <= 1

\* C34: every producer registered on the server is eventually the subject of
\* a consume request of the page (as long as the process lives).
C34_EveryProducerIsRequested ==
  \A p \in ProducerIds : (p \in producers) ~> (viewer.requests[p] > 0 \/ ~Ready)

\* C37: every consumer of the registry is open, and so are its transport
\* and its producer.
C37_RegistryHoldsOnlyLive ==
  \A c \in consumers :
    /\ cons[c].state = "open"
    /\ trans[cons[c].transportId].state = "open"
    /\ ~prod[cons[c].producerId].closed

\* C38: ffmpegProcesses holds the recorder of a track exactly while that
\* recorder is running.
C38_MapHoldsRunningProcesses ==
  \A k \in Kinds : k \in ffmpegProcesses <=> track[k].process = "running"

\* the reports the recording has logged
Reported == {recorder.log[i] : i \in 1..Len(recorder.log)}

\* C39: a recording is reported completed or reported failed, never both;
\* in particular no watchdog timer reports a failure of a recording that has
\* been reported completed.
C39_OneTerminalOutcome == ~({"completed", "noData"} \subseteq Reported)

\* C40: while the tracks of a session can arrive there is a stored remote
\* SDP, and no receiveTrack call has found it missing.
C40_SdpStoredBeforeTracks ==
  /\ \A n \in SessionIds : avatar.pcs[n] = "offered" => remoteSdp # 0
  /\ \A r \in avatar.reads : r.sdp # 0
  /\ "receiveTrack" \notin uncaught

C40_Witness ==
  /\ sessions = 1
  /\ {r.kind : r \in {x \in avatar.reads : x.session = 1}} = Kinds
  /\ \E c \in CallIds : avatar.calls[c].pc = "remoteDescription"

====
